---- MODULE Spec2Model ----
(***************************************************************************)
(* Model of library_manager.py: the LibraryManager catalog store (an       *)
(* ordered list of book records persisted to a '|'-delimited text file)    *)
(* and the interactive menu loop of main().                                *)
(*                                                                         *)
(* A Python str is a sequence of one-character strings, so that strip,     *)
(* split, lower, int() and the f-string formatting of a record line are    *)
(* computed character by character, as the code computes them.             *)
(***************************************************************************)
EXTENDS Integers, Sequences, FiniteSets, TLC

VARIABLES library, file, pc, out, added

vars == <<library, file, pc, out, added>>

\* library : self.library, the in-memory catalog (a sequence of book records)
\* file    : the file at self.file_path: [exists, content (sequence of chars)]
\* pc      : where the program is: "start" (before the constructor), "menu",
\*           "add", "remove", "search" (inside a menu flow), "done"
\* out     : what the last completed step did and printed
\* added   : <<the book of the last add_book>> while no mutation followed it

----------------------------------------------------------------------------
(* Bounds of the model *)

MaxBooks == 2
MaxFileLines == 3
MaxRTBooks == 2
MaxFieldLen == 2

----------------------------------------------------------------------------
(* Python str primitives *)

UpperChars == <<"A","B","C","D","E","F","G","H","I","J","K","L","M",
                "N","O","P","Q","R","S","T","U","V","W","X","Y","Z">>
LowerChars == <<"a","b","c","d","e","f","g","h","i","j","k","l","m",
                "n","o","p","q","r","s","t","u","v","w","x","y","z">>
DigitChars == <<"0","1","2","3","4","5","6","7","8","9">>

LowerChar(c) ==
    IF \E i \in 1..Len(UpperChars) : UpperChars[i] = c
    THEN LowerChars[CHOOSE i \in 1..Len(UpperChars) : UpperChars[i] = c]
    ELSE c

\* str.lower()
Lower(s) == [i \in 1..Len(s) |-> LowerChar(s[i])]

\* the characters str.strip() and int() treat as whitespace
IsSpace(c) == c \in {" ", "\n"}

RECURSIVE LStrip(_)
LStrip(s) == IF s # <<>> /\ IsSpace(Head(s)) THEN LStrip(Tail(s)) ELSE s

RECURSIVE RStrip(_)
RStrip(s) ==
    IF s # <<>> /\ IsSpace(s[Len(s)]) THEN RStrip(SubSeq(s, 1, Len(s) - 1)) ELSE s

\* str.strip()
Strip(s) == RStrip(LStrip(s))

\* needle in hay
Contains(needle, hay) ==
    \E i \in 0..(Len(hay) - Len(needle)) : SubSeq(hay, i + 1, i + Len(needle)) = needle

\* str.split(sep): always at least one part
RECURSIVE Split(_, _)
Split(s, sep) ==
    IF \E i \in 1..Len(s) : s[i] = sep
    THEN LET i == CHOOSE k \in 1..Len(s) :
                     s[k] = sep /\ \A j \in 1..(k - 1) : s[j] # sep
         IN  <<SubSeq(s, 1, i - 1)>> \o Split(SubSeq(s, i + 1, Len(s)), sep)
    ELSE <<s>>

\* iteration over a text file: the lines, each without its terminating newline
RECURSIVE FileLines(_)
FileLines(content) ==
    IF content = <<>> THEN <<>>
    ELSE IF \E i \in 1..Len(content) : content[i] = "\n"
    THEN LET i == CHOOSE k \in 1..Len(content) :
                     content[k] = "\n" /\ \A j \in 1..(k - 1) : content[j] # "\n"
         IN  <<SubSeq(content, 1, i - 1)>> \o FileLines(SubSeq(content, i + 1, Len(content)))
    ELSE <<content>>

DigitVal(c) == (CHOOSE i \in 1..Len(DigitChars) : DigitChars[i] = c) - 1

RECURSIVE DecVal(_)
DecVal(ds) ==
    IF ds = <<>> THEN 0
    ELSE 10 * DecVal(SubSeq(ds, 1, Len(ds) - 1)) + DigitVal(ds[Len(ds)])

IsDigit(c) == \E i \in 1..Len(DigitChars) : DigitChars[i] = c

\* int(s): [ok |-> FALSE] stands for ValueError
ParseInt(s) ==
    LET t == Strip(s)
        signed == t # <<>> /\ t[1] \in {"+", "-"}
        body == IF signed THEN Tail(t) ELSE t
    IN  IF body # <<>> /\ \A i \in 1..Len(body) : IsDigit(body[i])
        THEN [ok |-> TRUE,
              val |-> IF signed /\ t[1] = "-" THEN 0 - DecVal(body) ELSE DecVal(body)]
        ELSE [ok |-> FALSE, val |-> 0]

\* str(n) of an int, as the f-string formats the year
RECURSIVE IntToStr(_)
IntToStr(n) ==
    IF n < 0 THEN <<"-">> \o IntToStr(0 - n)
    ELSE IF n < 10 THEN <<DigitChars[n + 1]>>
    ELSE IntToStr(n \div 10) \o <<DigitChars[(n % 10) + 1]>>

RECURSIVE Concat(_)
Concat(ss) == IF ss = <<>> THEN <<>> ELSE Head(ss) \o Concat(Tail(ss))

ReadText == <<"R","e","a","d">>
UnreadText == <<"U","n","r","e","a","d">>

----------------------------------------------------------------------------
(* LibraryManager *)

Book(title, author, year, genre, read, date_added) ==
    [title |-> title, author |-> author, year |-> year, genre |-> genre,
     read |-> read, date_added |-> date_added]

\* one line of save_library
BookLine(book) ==
    book.title \o <<"|">> \o book.author \o <<"|">> \o IntToStr(book.year) \o <<"|">>
    \o book.genre \o <<"|">> \o (IF book.read THEN ReadText ELSE UnreadText) \o <<"|">>
    \o book.date_added \o <<"\n">>

\* everything save_library writes when no write fails
Serialize(lib) == Concat([i \in 1..Len(lib) |-> BookLine(lib[i])])

\* mutant: the file is opened for appending and only the last record is written
save_library_append(lib, f, outcome) ==
    IF outcome.kind = "ok" \/ (outcome.kind = "write" /\ outcome.k >= Len(lib))
    THEN [library |-> lib,
          file |-> [exists |-> TRUE,
                    content |-> f.content
                                \o (IF lib = <<>> THEN <<>> ELSE BookLine(lib[Len(lib)]))],
          save |-> "ok"]
    ELSE [library |-> lib, file |-> f, save |-> "fail"]

\* mutant: the except branch resets the catalog, as load_library's does
save_library_reset_on_fail(lib, f, outcome) ==
    IF outcome.kind = "open"
    THEN [library |-> <<>>, file |-> f, save |-> "fail"]
    ELSE IF outcome.kind = "write" /\ outcome.k < Len(lib)
    THEN [library |-> <<>>,
          file |-> [exists |-> TRUE, content |-> Serialize(SubSeq(lib, 1, outcome.k))],
          save |-> "fail"]
    ELSE [library |-> lib,
          file |-> [exists |-> TRUE, content |-> Serialize(lib)],
          save |-> "ok"]

\* save_library. outcome.kind "ok": no call raises. "open": open() raises and the
\* file is left as it was. "write": open() has truncated the file and the write
\* of line outcome.k + 1 raises (when there are that many lines to write). The
\* exception is caught and printed; self.library is not touched.
save_library(lib, f, outcome) ==
    IF outcome.kind = "open"
    THEN [library |-> lib, file |-> f, save |-> "fail"]
    ELSE IF outcome.kind = "write" /\ outcome.k < Len(lib)
    THEN [library |-> lib,
          file |-> [exists |-> TRUE, content |-> Serialize(SubSeq(lib, 1, outcome.k))],
          save |-> "fail"]
    ELSE [library |-> lib,
          file |-> [exists |-> TRUE, content |-> Serialize(lib)],
          save |-> "ok"]

\* the body of load_library's loop for one line: the books it appends (0 or 1)
ParseLine(line) ==
    LET parts == Split(Strip(line), "|")
    IN  IF Strip(line) # <<>> /\ Len(parts) >= 6
        THEN LET y == ParseInt(parts[3])
             IN  <<Book(parts[1], parts[2], IF y.ok THEN y.val ELSE 0, parts[4],
                        parts[5] = ReadText, parts[6])>>
        ELSE <<>>

\* mutant: the first line that gives no book ends the loop
RECURSIVE BooksUntilBadLine(_)
BooksUntilBadLine(lines) ==
    IF lines = <<>> \/ ParseLine(Head(lines)) = <<>> THEN <<>>
    ELSE ParseLine(Head(lines)) \o BooksUntilBadLine(Tail(lines))

load_library_stops_at_bad_line(lib, f, readable) ==
    IF f.exists
    THEN IF readable
         THEN [library |-> BooksUntilBadLine(FileLines(f.content)), msg |-> "Library loaded"]
         ELSE [library |-> <<>>, msg |-> "Error loading library"]
    ELSE [library |-> lib, msg |-> "No library file found"]

\* load_library. readable = FALSE: reading raises, the catalog is reset.
load_library(lib, f, readable) ==
    IF f.exists
    THEN IF readable
         THEN LET lines == FileLines(f.content)
              IN [library |-> Concat([i \in 1..Len(lines) |-> ParseLine(lines[i])]),
                  msg |-> "Library loaded"]
         ELSE [library |-> <<>>, msg |-> "Error loading library"]
    ELSE [library |-> lib, msg |-> "No library file found"]

\* add_book
add_book(lib, f, title, author, year, genre, read_status, today, outcome) ==
    LET book == Book(title, author, year, genre, read_status, today)
        s == save_library(Append(lib, book), f, outcome)
    IN  [library |-> s.library, file |-> s.file, save |-> s.save,
         msg |-> "Book added successfully!", book |-> book]

\* mutant: the title is matched as search_by_title matches it
TitleDiffersSubstring(book, title) == ~Contains(Lower(title), Lower(book.title))

TitleDiffers(book, title) == Lower(book.title) # Lower(title)

\* mutant: only the first record with the title is removed
RECURSIVE KeepOthersFirstOnly(_, _)
KeepOthersFirstOnly(lib, title) ==
    IF lib = <<>> THEN <<>>
    ELSE IF Lower(Head(lib).title) # Lower(title)
    THEN <<Head(lib)>> \o KeepOthersFirstOnly(Tail(lib), title)
    ELSE Tail(lib)

RECURSIVE KeepOthers(_, _)
KeepOthers(lib, title) ==
    IF lib = <<>> THEN <<>>
    ELSE (IF TitleDiffers(Head(lib), title) THEN <<Head(lib)>> ELSE <<>>)
         \o KeepOthers(Tail(lib), title)

\* mutant: the catalog is saved whether or not a record was removed
remove_book_always_saves(lib, f, title, outcome) ==
    LET initial_count == Len(lib)
        s == save_library(KeepOthers(lib, title), f, outcome)
    IN  [library |-> s.library, file |-> s.file,
         save |-> IF Len(s.library) < initial_count THEN s.save ELSE "none",
         msg |-> IF Len(s.library) < initial_count THEN "Book removed successfully!"
                 ELSE "Book not found in your library.",
         initial_count |-> initial_count]

\* remove_book
remove_book(lib, f, title, outcome) ==
    LET initial_count == Len(lib)
        kept == KeepOthers(lib, title)
    IN  IF Len(kept) < initial_count
        THEN LET s == save_library(kept, f, outcome)
             IN  [library |-> s.library, file |-> s.file, save |-> s.save,
                  msg |-> "Book removed successfully!", initial_count |-> initial_count]
        ELSE [library |-> kept, file |-> f, save |-> "none",
              msg |-> "Book not found in your library.", initial_count |-> initial_count]

RECURSIVE MatchesBy(_, _, _)
MatchesBy(lib, field, text) ==
    IF lib = <<>> THEN <<>>
    ELSE (IF Contains(Lower(text), Lower(Head(lib)[field])) THEN <<Head(lib)>> ELSE <<>>)
         \o MatchesBy(Tail(lib), field, text)

\* mutant: the titles are compared without lower()
RECURSIVE MatchesCaseSensitive(_, _)
MatchesCaseSensitive(lib, text) ==
    IF lib = <<>> THEN <<>>
    ELSE (IF Contains(text, Head(lib).title) THEN <<Head(lib)>> ELSE <<>>)
         \o MatchesCaseSensitive(Tail(lib), text)

search_by_title_case_sensitive(lib, title) == MatchesCaseSensitive(lib, title)

search_by_title(lib, title) == MatchesBy(lib, "title", title)

search_by_author(lib, author) == MatchesBy(lib, "author", author)

display_books(books) == IF books = <<>> THEN "No books to display." ELSE "Your Library:"

display_statistics(lib) == IF Len(lib) = 0 THEN "Your library is empty." ELSE "Total books"

----------------------------------------------------------------------------
(* get_menu_choice and main *)

\* one pass of get_menu_choice's loop on an input line: the choice it returns,
\* or 0 when it prints a complaint and prompts again
get_menu_choice(line) ==
    LET r == ParseInt(line)
    IN  IF r.ok /\ 1 <= r.val /\ r.val <= 6 THEN r.val ELSE 0

\* the yes/no prompt of the add flow: "yes", "no", or "again"
read_prompt(line) ==
    LET read_input == Lower(line)
    IN  IF read_input \in {<<"y","e","s">>, <<"y">>} THEN "yes"
        ELSE IF read_input \in {<<"n","o">>, <<"n">>} THEN "no"
        ELSE "again"

\* the sub-menu of the search flow: 1, 2, or 0 when it prompts again
search_prompt(line) ==
    LET r == ParseInt(line)
    IN  IF r.ok /\ r.val \in {1, 2} THEN r.val ELSE 0

Out(op, save, msg, arg, results, initial_count) ==
    [op |-> op, save |-> save, msg |-> msg, arg |-> arg, results |-> results,
     initial_count |-> initial_count]

NoOut == Out("none", "none", "", <<>>, <<>>, 0)

----------------------------------------------------------------------------
(* Inputs *)

\* datetime.now().strftime("%Y-%m-%d")
Today == <<"2","0","2","4","-","0","5","-","1","7">>

\* lines typed at the menu prompt
MenuInputs ==
    {<<"1">>, <<"2">>, <<"3">>, <<"4">>, <<"5">>, <<"6">>, <<" ","6"," ">>,
     <<"0">>, <<"7">>, <<"-","1">>, <<"x">>, <<>>, <<"6","x">>}

\* lines typed at the year prompt
YearInputs == {<<"7">>, <<"-","3">>, <<"1","2">>, <<>>, <<"x">>, <<"1","a">>}

\* lines typed at the yes/no prompt
ReadInputs == {<<"y","e","s">>, <<"y">>, <<"N","O">>, <<"n">>, <<"Y">>,
               <<>>, <<"o","k">>, <<"y","e","s"," ">>}

\* what the user types in the add flow: title, author, year, genre, yes/no
AddInputs ==
    {[title |-> <<"a">>, author |-> <<"x">>, year |-> <<"7">>, genre |-> <<"g">>,
      read |-> <<"y","e","s">>],
     [title |-> <<"A">>, author |-> <<>>, year |-> <<"-","3">>, genre |-> <<>>,
      read |-> <<"N","O">>],
     [title |-> <<"a","b">>, author |-> <<"X","y">>, year |-> <<"1","2">>, genre |-> <<"g">>,
      read |-> <<"Y">>]}

\* titles typed at the remove prompt, queries typed at the search prompt
TitleInputs == {<<"A">>, <<"a","B">>, <<"b">>}
QueryInputs == {<<"A">>, <<"a","B">>, <<"Y">>, <<>>}

\* how a save_library call ends
SaveOutcomes ==
    {[kind |-> "ok", k |-> 0], [kind |-> "open", k |-> 0]}
    \cup {[kind |-> "write", k |-> j] : j \in 0..(MaxBooks - 1)}

ValidLine == <<"a","|","x","|","7","|","g","|","R","e","a","d","|","d">>
TwoFieldLine == <<"O","|","F">>
BadYearLine == <<"b","|","y","|","z","z","|","g","|","U","n","r","e","a","d","|","d">>
BlankLine == <<>>
SpaceLine == <<" ">>
SevenFieldLine == <<"c","|","x","|","1","|","g","|","R","e","a","d","|","d","|","e">>
PaddedLine == <<" ","A","|","x","|"," ","1","2"," ","|","g","|","r","e","a","d","|","d"," ">>
EmptyFieldsLine == <<"|","|","|","|","|">>
FiveFieldLine == <<"a","|","x","|","7","|","g","|","R","e","a","d">>

\* files library.txt may hold when the program starts
StartFiles ==
    {[exists |-> FALSE, content |-> <<>>],
     [exists |-> TRUE,
      content |-> TwoFieldLine \o <<"\n">>
                  \o <<"a","|","x","|","7","|","g","|","R","e","a","d","|">> \o Today \o <<"\n">>]}

----------------------------------------------------------------------------
(* The program: LibraryManager() and the loop of main() *)

Init ==
    /\ library = <<>>
    /\ file \in StartFiles
    /\ pc = "start"
    /\ out = NoOut
    /\ added = <<>>

\* manager = LibraryManager()
Construct ==
    /\ pc = "start"
    /\ \E readable \in BOOLEAN :
         LET r == load_library(library, file, readable)
         IN  /\ library' = r.library
             /\ out' = Out("load", "none", r.msg, <<>>, <<>>, 0)
    /\ pc' = "menu"
    /\ UNCHANGED <<file, added>>

\* get_menu_choice complains and prompts again
MenuReject ==
    /\ pc = "menu"
    /\ \E line \in MenuInputs :
         /\ get_menu_choice(line) = 0
         /\ out' = Out("reject", "none",
                       IF ParseInt(line).ok THEN "Please enter a number between 1 and 6."
                       ELSE "Please enter a valid number.",
                       line, <<>>, 0)
    /\ UNCHANGED <<library, file, pc, added>>

\* choices 1, 2, 3: the flow starts to prompt
MenuFlow ==
    /\ pc = "menu"
    /\ \E line \in MenuInputs :
         /\ get_menu_choice(line) \in {1, 2, 3}
         /\ pc' = CASE get_menu_choice(line) = 1 -> "add"
                    [] get_menu_choice(line) = 2 -> "remove"
                    [] OTHER -> "search"
         /\ out' = Out("choice", "none", "", line, <<>>, 0)
    /\ UNCHANGED <<library, file, added>>

\* choice 1, the year prompt: not an integer, asked again
AddRejectYear ==
    /\ pc = "add"
    /\ \E line \in YearInputs :
         /\ ~ParseInt(line).ok
         /\ out' = Out("reject", "none", "Please enter a valid year.", <<>>, <<>>, 0)
    /\ UNCHANGED <<library, file, pc, added>>

\* choice 1, the yes/no prompt: not understood, asked again
AddRejectRead ==
    /\ pc = "add"
    /\ \E line \in ReadInputs :
         /\ read_prompt(line) = "again"
         /\ out' = Out("reject", "none", "Please enter 'yes' or 'no'.", <<>>, <<>>, 0)
    /\ UNCHANGED <<library, file, pc, added>>

\* choice 1 with every prompt answered: manager.add_book(...)
AddBook ==
    /\ pc = "add"
    /\ Len(library) < MaxBooks
    /\ \E in \in AddInputs, outcome \in SaveOutcomes :
         /\ ParseInt(in.year).ok
         /\ read_prompt(in.read) # "again"
         /\ LET r == add_book(library, file, in.title, in.author, ParseInt(in.year).val,
                              in.genre, read_prompt(in.read) = "yes", Today, outcome)
            IN  /\ library' = r.library
                /\ file' = r.file
                /\ out' = Out("add", r.save, r.msg, in.title, <<>>, 0)
                /\ added' = <<r.book>>
    /\ pc' = "menu"

\* choice 2: manager.remove_book(title)
RemoveBook ==
    /\ pc = "remove"
    /\ \E title \in TitleInputs, outcome \in SaveOutcomes :
         LET r == remove_book(library, file, title, outcome)
         IN  /\ library' = r.library
             /\ file' = r.file
             /\ out' = Out("remove", r.save, r.msg, title, <<>>, r.initial_count)
    /\ added' = <<>>
    /\ pc' = "menu"

\* choice 3, the sub-menu: neither 1 nor 2, asked again
SearchReject ==
    /\ pc = "search"
    /\ \E line \in MenuInputs :
         /\ search_prompt(line) = 0
         /\ out' = Out("reject", "none",
                       IF ParseInt(line).ok THEN "Please enter 1 or 2."
                       ELSE "Please enter a valid number.",
                       <<>>, <<>>, 0)
    /\ UNCHANGED <<library, file, pc, added>>

\* choice 3, sub-choice 1: manager.search_by_title(query)
SearchTitle ==
    /\ pc = "search"
    /\ \E line \in MenuInputs, query \in QueryInputs :
         /\ search_prompt(line) = 1
         /\ LET results == search_by_title(library, query)
            IN  out' = Out("search_title", "none",
                           IF results # <<>> THEN "Matching Books:"
                           ELSE "No matching books found.",
                           query, results, 0)
    /\ pc' = "menu"
    /\ UNCHANGED <<library, file, added>>

\* choice 3, sub-choice 2: manager.search_by_author(query)
SearchAuthor ==
    /\ pc = "search"
    /\ \E line \in MenuInputs, query \in QueryInputs :
         /\ search_prompt(line) = 2
         /\ LET results == search_by_author(library, query)
            IN  out' = Out("search_author", "none",
                           IF results # <<>> THEN "Matching Books:"
                           ELSE "No matching books found.",
                           query, results, 0)
    /\ pc' = "menu"
    /\ UNCHANGED <<library, file, added>>

\* choice 4: manager.display_books()
DisplayAll ==
    /\ pc = "menu"
    /\ \E line \in MenuInputs :
         /\ get_menu_choice(line) = 4
         /\ out' = Out("display", "none", display_books(library), line, library, 0)
    /\ UNCHANGED <<library, file, pc, added>>

\* choice 5: manager.display_statistics()
Statistics ==
    /\ pc = "menu"
    /\ \E line \in MenuInputs :
         /\ get_menu_choice(line) = 5
         /\ out' = Out("stats", "none", display_statistics(library), line, <<>>, 0)
    /\ UNCHANGED <<library, file, pc, added>>

\* mutant: choice 6 says goodbye and breaks without saving
ExitWithoutSave ==
    /\ pc = "menu"
    /\ \E line \in MenuInputs :
         /\ get_menu_choice(line) = 6
         /\ out' = Out("exit", "none", "Library saved to file. Goodbye!", line, <<>>, 0)
    /\ pc' = "done"
    /\ UNCHANGED <<library, file, added>>

\* choice 6: manager.save_library(), goodbye, break
Exit ==
    /\ pc = "menu"
    /\ \E line \in MenuInputs, outcome \in SaveOutcomes :
         /\ get_menu_choice(line) = 6
         /\ LET s == save_library(library, file, outcome)
            IN  /\ library' = s.library
                /\ file' = s.file
                /\ out' = Out("exit", s.save, "Library saved to file. Goodbye!", line, <<>>, 0)
    /\ pc' = "done"
    /\ UNCHANGED added

Next ==
    \/ Construct
    \/ MenuReject
    \/ MenuFlow
    \/ AddRejectYear
    \/ AddRejectRead
    \/ AddBook
    \/ RemoveBook
    \/ SearchReject
    \/ SearchTitle
    \/ SearchAuthor
    \/ DisplayAll
    \/ Statistics
    \/ Exit

Spec == Init /\ [][Next]_vars

----------------------------------------------------------------------------
(* load_library on arbitrary files *)

SeqsUpTo(S, n) == UNION {[1..m -> S] : m \in 0..n}

LoadLines ==
    {ValidLine, TwoFieldLine, BadYearLine, BlankLine, SpaceLine, SevenFieldLine,
     PaddedLine, EmptyFieldsLine, FiveFieldLine}

Terminated(ls) == Concat([i \in 1..Len(ls) |-> ls[i] \o <<"\n">>])

\* every file of at most MaxFileLines lines, the last line with or without its newline
LoadFiles ==
    {[exists |-> FALSE, content |-> <<>>]}
    \cup {[exists |-> TRUE, content |-> Terminated(ls)] : ls \in SeqsUpTo(LoadLines, MaxFileLines)}
    \cup {[exists |-> TRUE, content |-> SubSeq(Terminated(ls), 1, Len(Terminated(ls)) - 1)] :
            ls \in SeqsUpTo(LoadLines, MaxFileLines) \ {<<>>}}

LoadInit ==
    /\ library = <<>>
    /\ file \in LoadFiles
    /\ pc = "start"
    /\ out = NoOut
    /\ added = <<>>

LoadNext == Construct

LoadSpec == LoadInit /\ [][LoadNext]_vars

----------------------------------------------------------------------------
(* save_library followed by load_library *)

RTChars == {"a", " ", "|"}

RTStrings == SeqsUpTo(RTChars, MaxFieldLen)

RTBooks ==
    {Book(t, a, y, <<"g">>, r, Today) :
        t \in RTStrings, a \in {<<"x">>, <<"|">>}, y \in {-3, 12}, r \in BOOLEAN}

RTInit ==
    /\ library \in SeqsUpTo(RTBooks, MaxRTBooks)
    /\ file = [exists |-> FALSE, content |-> <<>>]
    /\ pc = "rt_start"
    /\ out = NoOut
    /\ added = <<>>

\* manager.save_library()
RTSave ==
    /\ pc = "rt_start"
    /\ \E outcome \in SaveOutcomes :
         LET s == save_library(library, file, outcome)
         IN  /\ library' = s.library
             /\ file' = s.file
             /\ out' = Out("save", s.save, "", <<>>, library, 0)
    /\ pc' = "rt_saved"
    /\ UNCHANGED added

\* manager.load_library()
RTLoad ==
    /\ pc = "rt_saved"
    /\ \E readable \in BOOLEAN :
         LET r == load_library(library, file, readable)
         IN  /\ library' = r.library
             /\ out' = [out EXCEPT !.op = "load", !.msg = r.msg]
    /\ pc' = "rt_loaded"
    /\ UNCHANGED <<file, added>>

RTNext == RTSave \/ RTLoad

RoundTripSpec == RTInit /\ [][RTNext]_vars

----------------------------------------------------------------------------
(* Properties *)

EqualsIgnoringCase(a, b) == Lower(a) = Lower(b)

\* the positions of the catalog whose title equals t ignoring case
Matching(lib, t) == {i \in 1..Len(lib) : EqualsIgnoringCase(lib[i].title, t)}

\* the elements of seq at the positions in idx, in their order in seq
RECURSIVE Pick(_, _)
Pick(seq, idx) ==
    IF seq = <<>> THEN <<>>
    ELSE Pick(SubSeq(seq, 1, Len(seq) - 1), idx)
         \o (IF Len(seq) \in idx THEN <<seq[Len(seq)]>> ELSE <<>>)

BarCount(line) == Cardinality({i \in 1..Len(line) : line[i] = "|"})

NoBar(str) == \A i \in 1..Len(str) : str[i] # "|"

\* C1: saving a catalog whose titles, authors and genres hold no '|' and then
\* loading it gives back the catalog that was saved, field for field, in order.
C1_RoundTrip ==
    (/\ pc = "rt_loaded"
     /\ out.save = "ok"
     /\ out.msg = "Library loaded"
     /\ \A i \in 1..Len(out.results) :
          NoBar(out.results[i].title) /\ NoBar(out.results[i].author)
          /\ NoBar(out.results[i].genre))
    => library = out.results

\* C2: right after an add_book or a removing remove_book whose save succeeded,
\* the file holds exactly one line per record of the whole catalog, in order.
C2_FileIsWholeCatalog ==
    (out.op \in {"add", "remove"} /\ out.save = "ok")
    => /\ file.exists
       /\ Len(FileLines(file.content)) = Len(library)
       /\ \A i \in 1..Len(library) :
            FileLines(file.content)[i] \o <<"\n">> = BookLine(library[i])
       /\ file.content = Serialize(library)

C2_Witness ==
    /\ out.op = "add"
    /\ out.save = "ok"
    /\ Len(library) = 2
    /\ Len(FileLines(file.content)) = 2

\* C3: remove_book(t) leaves exactly the prior records whose title differs from
\* t ignoring case, in their order; a record whose title only contains t stays.
C3_RemoveKeepsExactlyOthers ==
    [][out'.op = "remove"
       => /\ library' = Pick(library, (1..Len(library)) \ Matching(library, out'.arg))
          /\ \A i \in 1..Len(library) :
               (/\ Contains(Lower(out'.arg), Lower(library[i].title))
                /\ ~EqualsIgnoringCase(library[i].title, out'.arg))
               => \E j \in 1..Len(library') : library'[j] = library[i]]_vars

C3_Witness ==
    /\ out.op = "remove"
    /\ out.initial_count = Len(library) + 1
    /\ \E i \in 1..Len(library) :
         /\ Contains(Lower(out.arg), Lower(library[i].title))
         /\ library[i].title # out.arg

\* C4 as stated: removing a title that some record bears ignoring case makes the
\* number of records decrease by exactly one.
C4_DecreasesByOne ==
    [][(out'.op = "remove" /\ Matching(library, out'.arg) # {})
       => Len(library') = Len(library) - 1]_vars

\* C4 amended: removing a title that some record bears ignoring case removes
\* every such record; the number of records decreases by the number of them.
C4_DecreasesByMatches ==
    [][(out'.op = "remove" /\ Matching(library, out'.arg) # {})
       => /\ Len(library') = Len(library) - Cardinality(Matching(library, out'.arg))
          /\ Len(library') < Len(library)
          /\ Matching(library', out'.arg) = {}]_vars

C4_Witness ==
    /\ out.op = "remove"
    /\ out.initial_count = Len(library) + 2
    /\ out.msg = "Book removed successfully!"

\* C5: remove_book(t) with no record titled t ignoring case leaves the catalog and
\* the file as they were and reports not-found; it reports success exactly when
\* a record was removed.
C5_RemoveAbsent ==
    [][out'.op = "remove"
       => /\ (Matching(library, out'.arg) = {}
              => /\ library' = library
                 /\ file' = file
                 /\ out'.msg = "Book not found in your library.")
          /\ out'.msg \in {"Book removed successfully!", "Book not found in your library."}
          /\ (out'.msg = "Book removed successfully!" <=> Len(library') < Len(library))]_vars

C5_Witness ==
    /\ out.op = "remove"
    /\ out.msg = "Book not found in your library."
    /\ library # <<>>
    /\ file.content # Serialize(library)

SearchedJustAdded ==
    /\ out.op = "search_title"
    /\ added # <<>>
    /\ EqualsIgnoringCase(out.arg, added[1].title)

\* C6 as stated: add_book followed by search_by_title with that title in any
\* letter case returns exactly one match, the record just added.
C6_ExactlyOneMatch == SearchedJustAdded => out.results = <<added[1]>>

\* C6 amended: the search returns the record just added as its last match, after
\* the earlier records whose title contains the title ignoring case; it is the
\* only match exactly when there is no such earlier record.
C6_AddedIsLastMatch ==
    SearchedJustAdded
    => /\ out.results # <<>>
       /\ out.results[Len(out.results)] = added[1]
       /\ library[Len(library)] = added[1]
       /\ Len(out.results) = 1 + Cardinality({i \in 1..(Len(library) - 1) :
                                  Contains(Lower(added[1].title), Lower(library[i].title))})

C6_Witness ==
    /\ SearchedJustAdded
    /\ out.arg # added[1].title
    /\ out.results = <<added[1]>>
    /\ Len(library) = 2

HasSixFields(line) == BarCount(line) >= 5

\* C7: a load that reads the file gives one record per line of at least 6 fields,
\* in file order, whatever the other lines are; the year is 0 when the year
\* field is not an integer.
C7_LoadSkipsBadLines ==
    (out.op = "load" /\ out.msg = "Library loaded")
    => LET good == SelectSeq(FileLines(file.content), HasSixFields)
       IN  /\ Len(library) = Len(good)
           /\ \A i \in 1..Len(good) :
                LET fields == Split(good[i], "|")
                IN  /\ library[i].title = LStrip(fields[1])
                    /\ library[i].author = fields[2]
                    /\ library[i].genre = fields[4]
                    /\ (ParseInt(fields[3]).ok => library[i].year = ParseInt(fields[3]).val)
                    /\ (~ParseInt(fields[3]).ok => library[i].year = 0)

C7_Witness ==
    /\ out.op = "load"
    /\ out.msg = "Library loaded"
    /\ FileLines(file.content) = <<TwoFieldLine, BadYearLine, ValidLine>>
    /\ Len(library) = 2
    /\ library[1].year = 0
    /\ library[2].year = 7

\* C8: a failed save does not end the program and leaves the catalog as the
\* mutation made it; every successful save writes the whole catalog.
C8_SaveFailureKeepsCatalog ==
    [][/\ (out'.save = "fail" /\ out'.op = "add")
          => (pc' = "menu" /\ library' = Append(library, added'[1]))
       /\ (out'.save = "fail" /\ out'.op = "remove")
          => /\ pc' = "menu"
             /\ library' = Pick(library, (1..Len(library)) \ Matching(library, out'.arg))
       /\ (out'.save = "fail" /\ out'.op = "exit")
          => (pc' = "done" /\ library' = library)
       /\ (out'.save = "ok" /\ out'.op \in {"add", "remove", "exit"})
          => file' = [exists |-> TRUE, content |-> Serialize(library')]]_vars

C8_Witness ==
    /\ out.op = "add"
    /\ out.save = "fail"
    /\ Len(library) = 2
    /\ file.content # Serialize(library)

\* C9: every record of the catalog has a non-empty title and a non-empty author.
C9_TitleAndAuthorNonEmpty ==
    \A i \in 1..Len(library) : library[i].title # <<>> /\ library[i].author # <<>>

\* C10: the loop ends only on menu choice 6, after a save of the unchanged catalog
\* that, when it succeeds, leaves the file equal to the catalog's serialization;
\* every other choice comes back to the menu, and rejected input changes nothing.
C10_ExitOnlyByChoiceSix ==
    [][/\ (pc' = "done" /\ pc # "done")
          => /\ pc = "menu"
             /\ ParseInt(out'.arg) = [ok |-> TRUE, val |-> 6]
             /\ library' = library
             /\ out'.save \in {"ok", "fail"}
             /\ (out'.save = "ok"
                 => file' = [exists |-> TRUE, content |-> Serialize(library')])
       /\ (pc = "menu" /\ (~ParseInt(out'.arg).ok \/ ParseInt(out'.arg).val \notin 1..6))
          => (pc' = "menu" /\ library' = library /\ file' = file)
       /\ out'.op = "reject" => (pc' = pc /\ library' = library /\ file' = file)
       /\ out'.op \in {"add", "remove", "search_title", "search_author", "display", "stats"}
          => pc' = "menu"]_vars

C10_Witness ==
    /\ pc = "done"
    /\ out.op = "exit"
    /\ out.save = "ok"
    /\ Len(library) = 2
    /\ file.content = Serialize(library)

====
